---- MODULE Spec2Model ----
(***************************************************************************)
(* Model of the Nextcloud Collectives sync plugin (src/main.ts).           *)
(*                                                                         *)
(* Paths and names are sequences of one-character strings, so that the     *)
(* string operations of the source (startsWith, slice, split, replace,     *)
(* lastIndexOf) are computed as the source computes them.                  *)
(*                                                                         *)
(* Every asynchronous call chain of the plugin (one syncWithNextcloud      *)
(* pass, one save-hook uploadFile) is a task.  A task is suspended at an   *)
(* await on an I/O request; one action models the completion of that       *)
(* request together with all the code that runs until the next await       *)
(* (JavaScript runs the code between two awaits without interruption).     *)
(***************************************************************************)
EXTENDS Integers, Sequences, FiniteSets, TLC

(***************************************************************************)
(* Bounds of the model.                                                    *)
(***************************************************************************)
MaxTasks == 2   \* call chains that may be in flight at the same time
MaxFaults == 1  \* transport or filesystem failures injected in one run

(***************************************************************************)
(* String operations of JavaScript on sequences of characters.             *)
(***************************************************************************)
StartsWith(s, p) == Len(p) <= Len(s) /\ SubSeq(s, 1, Len(p)) = p

EndsWith(s, p) == Len(p) <= Len(s) /\ SubSeq(s, Len(s) - Len(p) + 1, Len(s)) = p

\* s.slice(n) for 0 <= n
Slice(s, n) == SubSeq(s, n + 1, Len(s))

\* s.lastIndexOf(c), 1-based; 0 when c does not occur (JavaScript: -1)
LastIndexOf(s, c) ==
    LET hits == {i \in 1..Len(s) : s[i] = c}
    IN IF hits = {} THEN 0 ELSE CHOOSE i \in hits : \A j \in hits : j <= i

\* s.substring(0, s.lastIndexOf('/')): a negative end counts as 0
DirName(s) == SubSeq(s, 1, LastIndexOf(s, "/") - 1)

\* s.indexOf(p), 1-based; 0 when p does not occur
IndexOf(s, p) ==
    LET hits == {i \in 1..(Len(s) - Len(p) + 1) : SubSeq(s, i, i + Len(p) - 1) = p}
    IN IF hits = {} THEN 0 ELSE CHOOSE i \in hits : \A j \in hits : i <= j

\* s.replace(p, ''): removes the first occurrence of the literal p
RemoveFirst(s, p) ==
    LET i == IndexOf(s, p)
    IN IF i = 0 THEN s ELSE SubSeq(s, 1, i - 1) \o SubSeq(s, i + Len(p), Len(s))

\* s.split('/').filter(c => c): the non-empty components of s
RECURSIVE Components(_)
Components(s) ==
    IF s = <<>> THEN <<>>
    ELSE LET i == IndexOf(s, <<"/">>)
         IN IF i = 0 THEN <<s>>
            ELSE IF i = 1 THEN Components(Slice(s, 1))
            ELSE <<SubSeq(s, 1, i - 1)>> \o Components(Slice(s, i))

\* currentPath after the first n iterations of the loop of ensureDirectoryExists
RECURSIVE CurrentPath(_, _)
CurrentPath(comps, n) ==
    IF n = 0 THEN <<>>
    ELSE CurrentPath(comps, n - 1) \o <<"/">> \o comps[n]

\* the orderings of a finite set
RECURSIVE Orderings(_)
Orderings(S) ==
    IF S = {} THEN {<<>>}
    ELSE UNION {{<<x>> \o o : o \in Orderings(S \ {x})} : x \in S}

(***************************************************************************)
(* Names used by the model.                                                *)
(***************************************************************************)
MdExt == <<".", "m", "d">>
RootC == <<"/", "C">>                                    \* collectivePath "/C"
FolderN == <<"n">>                                       \* localFolderPath "n"
File_n_b == <<"n", "/", "b", ".", "m", "d">>             \* n/b.md
File_n_s_a == <<"n", "/", "s", "/", "a", ".", "m", "d">> \* n/s/a.md
Remote_b == <<"/", "C", "/", "b", ".", "m", "d">>        \* /C/b.md
Remote_s_a == <<"/", "C", "/", "s", "/", "a", ".", "m", "d">> \* /C/s/a.md
File_nb == <<"n", "b", ".", "m", "d">>                   \* nb.md, beside the folder n
File_b == <<"b", ".", "m", "d">>                         \* b.md, beside the folder n
Contents == {"X", "Y"}
NULL == <<>>                \* null: no connection handle (a handle is a tuple)
NoTimer == 0                \* this.syncIntervalId when it is null (the code tests it for truth)
Url == "https://cloud"      \* a value of the setting nextcloudUrl
User == "user"              \* a value of the setting username
Secret == "secret"          \* a value of the setting password
Other == "other"            \* another value of the setting username
Token == "token"            \* an app password the login endpoint hands out
Interval == 5               \* DEFAULT_SETTINGS.syncInterval, in minutes
MaxAttempts == 60           \* maxAttempts of the polling loops

VARIABLES
    settings,     \* this.settings
    client,       \* this.client: NULL or the connection handle
    status,       \* text of this.statusBarItem
    local,        \* the vault: path of a file |-> content
    localDirs,    \* the folders of the vault
    remoteFiles,  \* the server: path of a file |-> content
    remoteDirs,   \* the directories of the server
    tasks,        \* the call chains in flight, and the finished ones
    hookRegistered, \* onload registered the modify handler
    faults,       \* failures injected so far
    ensured,      \* the directories ensureDirectoryExists has returned for
    history,      \* the call chains keep a log of their operations (the
                  \* specifications whose properties read the logs set it)
    syncIntervalId, \* this.syncIntervalId: NoTimer or the id of an interval timer
    timers,       \* the interval timers of the window that are active
    startupTimer, \* the timeout onload set for the sync on startup is pending
    unloaded      \* onunload has run

\* the timers and the life cycle of the plugin
timerVars == <<syncIntervalId, timers, startupTimer, unloaded>>

vars == <<settings, client, status, local, localDirs, remoteFiles, remoteDirs,
          tasks, hookRegistered, faults, ensured, history, timerVars>>


(***************************************************************************)
(* Path mapping.                                                           *)
(***************************************************************************)
\* a variant that appends no '/' to the collective root
UploadRootLeadingOnly(collectivePath) ==
    IF ~StartsWith(collectivePath, <<"/">>)
    THEN <<"/">> \o collectivePath ELSE collectivePath

\* uploadFile: the collective root, made to start and to end with '/'
UploadRoot(collectivePath) ==
    LET a == IF ~StartsWith(collectivePath, <<"/">>)
             THEN <<"/">> \o collectivePath ELSE collectivePath
    IN IF ~EndsWith(a, <<"/">>) THEN a \o <<"/">> ELSE a

\* uploadFile: the path of the file relative to the local folder
RelativePath(path, localBasePath) ==
    LET r == IF localBasePath # <<>> /\ StartsWith(path, localBasePath)
             THEN Slice(path, Len(localBasePath)) ELSE path
    IN IF StartsWith(r, <<"/">>) THEN Slice(r, 1) ELSE r

\* uploadFile: the remote path a local file is written to
UploadRemotePath(path) ==
    UploadRoot(settings.collectivePath) \o RelativePath(path, settings.localFolderPath)

\* downloadChanges: the remote path that is listed
DownloadRoot(collectivePath) ==
    IF ~StartsWith(collectivePath, <<"/">>)
    THEN <<"/">> \o collectivePath ELSE collectivePath

\* downloadChanges: the local path a remote file is written to
DownloadLocalPath(filename, remotePath) ==
    LET p == RemoveFirst(filename, remotePath)
    IN IF settings.localFolderPath # <<>> THEN settings.localFolderPath \o p ELSE p

\* The vault names a file by its path from the vault root: the host resolves a
\* path with a leading '/' (as downloadChanges builds when the local folder is
\* empty) to the same file.
VaultPath(p) == IF StartsWith(p, <<"/">>) THEN Slice(p, 1) ELSE p

\* uploadChanges: the markdown files selected for upload
SelectedFiles(folderPath) == {f \in DOMAIN local : StartsWith(f, folderPath)}

\* syncWithNextcloud: this.settings.localFolderPath || '/'
FolderPath == IF settings.localFolderPath # <<>> THEN settings.localFolderPath ELSE <<"/">>

(***************************************************************************)
(* The server (WebDAV).                                                    *)
(***************************************************************************)
RemoteDirExists(p) == p = <<>> \/ p \in remoteDirs

RemoteExists(p) == RemoteDirExists(p) \/ p \in DOMAIN remoteFiles

\* getDirectoryContents(dir, {deep: true}): every entry below dir
RemoteListing(dir) ==
    {p \in remoteDirs \cup DOMAIN remoteFiles : StartsWith(p, dir \o <<"/">>)}

BaseName(p) == Slice(p, LastIndexOf(p, "/"))

\* downloadChanges: the entries of the listing that are processed
IsRemoteMarkdown(p) == p \in DOMAIN remoteFiles /\ EndsWith(BaseName(p), MdExt)

\* the results a request can have: its own, or a transport or filesystem failure
\* createClient of the webdav library: the handle is the endpoint and the
\* credentials it sends with every request
CreateClient(url, username, password) ==
    <<url, username, password>>

\* setupClient, lines 147-169 (the status bar item exists after onload)
SetupClient(s) ==
    IF s.nextcloudUrl = "" \/ s.username = "" \/ s.password = ""
    THEN [client |-> NULL, status |-> "Not Connected"]
    ELSE [client |-> CreateClient(s.nextcloudUrl, s.username, s.password),
          status |-> "Connected"]

\* setupOAuthClient, lines 479-500
SetupOAuthClient(s) ==
    IF s.nextcloudUrl = "" \/ s.accessToken = ""
    THEN [client |-> NULL, status |-> "Not Connected"]
    ELSE [client |-> CreateClient(s.nextcloudUrl, s.username, s.accessToken),
          status |-> "Connected via OAuth"]

\* a settings file: the connection is configured with a password, the
\* timers and the modify handler are switched off
Configured ==
    [nextcloudUrl |-> Url, username |-> User, password |-> Secret,
     collectivePath |-> RootC, localFolderPath |-> FolderN,
     syncInterval |-> 0, syncOnStartup |-> FALSE, syncOnSave |-> FALSE,
     accessToken |-> "", useOAuth |-> FALSE]

Outcomes == IF faults < MaxFaults THEN {"ok", "fail"} ELSE {"ok"}

Injected(o) == faults' = IF o = "fail" THEN faults + 1 ELSE faults


(***************************************************************************)
(* Tasks.                                                                  *)
(***************************************************************************)
Tasks == 1..MaxTasks

\* kind: "pass" (syncWithNextcloud) or "save" (uploadFile of the modify handler)
\* pc: the request the task awaits, "idle" (no call chain) or "done"
\* The fields from selected on record what the call chain did and saw:
\*   unedited  the vault when the pass started, without the files the user
\*             edited since then
\*   selected  the files uploadChanges selected
\*   called    the files uploadFile was called for
\*   listed    the remote markdown files of the listing
\*   processed the remote files the download loop started on
\*   statFailed  the stat of the current level failed with a transport error
\*   repeat    ensureDirectoryExists had returned for this directory before
\*   created   the directories this call of ensureDirectoryExists created
\*   failedAt  the request whose failure ended the call chain
\*   log       the reads, comparisons and writes the call chain has made
\*   notice    the Notice the call chain has shown
\*   rerun     the pass started right after a pass of this slot that ended
\*             without error, with no failed request and no edit of the
\*             user since that pass started
\*   touched   the user has edited a file since the pass started
\*   handle    this.client when the pass started
\*   torn      the pass has issued a remote request on another connection
\*             handle than the one it started with
\*   attempts  the polls of the login flow that found the login not completed
\*   polls     the poll requests the login flow has issued
\*   stored    the login flow has changed this.settings
IdleTask ==
    [kind |-> "none", pc |-> "idle", outcome |-> "none",
     todo |-> <<>>, file |-> <<>>, content |-> "", remotePath |-> <<>>,
     comps |-> <<>>, level |-> 0,
     root |-> <<>>, listing |-> <<>>, rfile |-> <<>>, rcontent |-> "",
     localPath |-> <<>>,
     unedited |-> <<>>,
     selected |-> {}, called |-> {}, listed |-> {}, processed |-> {},
     statFailed |-> FALSE, repeat |-> FALSE, created |-> {}, failedAt |-> "none",
     log |-> {}, notice |-> "none", rerun |-> FALSE, touched |-> FALSE,
     handle |-> NULL, torn |-> FALSE, attempts |-> 0, polls |-> 0, stored |-> FALSE]

\* the call chain has made the operation op on path
Logged(tk, op, path) ==
    IF history THEN [tk EXCEPT !.log = @ \cup {<<op, path>>}] ELSE tk

Free(t) == tasks[t].pc \in {"idle", "done"}

InFlight(t) == ~Free(t)

\* the call chain has ended: by a return, or by an exception that reached
\* syncWithNextcloud's catch (a pass) or nothing at all (a save-hook upload)
Returned(tk) ==
    [tk EXCEPT !.pc = "done", !.outcome = "ok", !.todo = <<>>, !.file = <<>>,
               !.content = "", !.remotePath = <<>>, !.comps = <<>>, !.level = 0,
               !.root = <<>>, !.listing = <<>>, !.rfile = <<>>, !.rcontent = "",
               !.localPath = <<>>, !.statFailed = FALSE, !.repeat = FALSE,
               !.created = {},
               !.notice = IF tk.kind = "pass" THEN "completed" ELSE "none"]

\* a variant whose catch reports nothing
ThrownSilently(tk) ==
    [Returned(tk) EXCEPT !.outcome = "error", !.failedAt = tk.pc,
                         !.statFailed = tk.statFailed, !.repeat = tk.repeat,
                         !.created = tk.created, !.notice = "none"]

\* syncWithNextcloud, lines 206-212: the catch reports the error
Thrown(tk) ==
    [Returned(tk) EXCEPT !.outcome = "error", !.failedAt = tk.pc,
                         !.statFailed = tk.statFailed, !.repeat = tk.repeat,
                         !.created = tk.created,
                         !.notice = IF tk.kind = "pass" THEN "error" ELSE "none"]

\* the requests to the server
RemotePcs == {"stat", "mkdir", "put", "list", "get"}

\* the call chain goes on as tk: a request to the server that it awaits now
\* was issued on this.client
Issued(tk) ==
    IF tk.kind = "pass" /\ tk.pc \in RemotePcs /\ client # tk.handle
    THEN [tk EXCEPT !.torn = TRUE] ELSE tk

\* a variant that sets the status Connected also after an error
CommitAlwaysConnected(t, tk) ==
    /\ tasks' = [tasks EXCEPT ![t] = Issued(tk)]
    /\ status' = IF tk.kind = "pass" /\ tk.pc = "done" THEN "Connected" ELSE status
    /\ ensured' = IF tk.pc = "put" /\ tasks[t].pc # "put"
                  THEN ensured \cup {DirName(tk.remotePath)}
                  ELSE ensured

\* syncWithNextcloud, lines 202-211: the status a finished pass leaves
Commit(t, tk) ==
    /\ tasks' = [tasks EXCEPT ![t] = Issued(tk)]
    /\ status' = IF tk.kind = "pass" /\ tk.pc = "done"
                 THEN (IF tk.outcome = "ok" THEN "Connected" ELSE "Error")
                 ELSE status
    /\ ensured' = IF tk.pc = "put" /\ tasks[t].pc # "put"
                  THEN ensured \cup {DirName(tk.remotePath)}
                  ELSE ensured

\* downloadChanges up to its first await (the listing request)
StartDownload(tk) ==
    IF client = NULL THEN Returned(tk)
    ELSE [tk EXCEPT !.pc = "list", !.root = DownloadRoot(settings.collectivePath),
                    !.file = <<>>, !.content = "", !.remotePath = <<>>,
                    !.comps = <<>>, !.level = 0, !.repeat = FALSE, !.created = {}]

\* uploadFile up to its first await (the local read)
StartUploadFile(tk, f) ==
    IF client = NULL THEN Returned(tk)
    ELSE [tk EXCEPT !.pc = "read", !.file = f, !.called = @ \cup {f},
                    !.content = "", !.remotePath = <<>>, !.comps = <<>>,
                    !.level = 0, !.repeat = FALSE, !.created = {}]

\* uploadChanges awaits every uploadFile before it returns
NextUploadNoAwait(tk) ==
    IF tk.kind = "save" THEN Returned(tk) ELSE StartDownload(tk)

\* the loop of uploadChanges: the next file, or the download phase
NextUpload(tk) ==
    IF tk.kind = "save" THEN Returned(tk)
    ELSE IF tk.todo = <<>> THEN StartDownload(tk)
    ELSE IF client = NULL
         THEN StartDownload([tk EXCEPT !.called = @ \cup {tk.todo[i] : i \in 1..Len(tk.todo)},
                                       !.todo = <<>>])
    ELSE StartUploadFile([tk EXCEPT !.todo = Tail(@)], Head(tk.todo))

\* uploadFile, line 259: the write request, after ensureDirectoryExists returned
IssuePut(tk) ==
    IF client = NULL THEN Thrown(tk)
    ELSE [tk EXCEPT !.pc = "put", !.statFailed = FALSE]

\* ensureDirectoryExists: the loop at level n (the stat request), or its end
EnsureLevel(tk, n) ==
    IF n > Len(tk.comps) THEN IssuePut(tk)
    ELSE IF client = NULL THEN Thrown(tk)
    ELSE [tk EXCEPT !.pc = "stat", !.level = n, !.statFailed = FALSE]

\* the loop of ensureDirectoryExists starts at the first component
EnsureFromSecondLevel(tk, directory) ==
    IF client = NULL THEN IssuePut(tk)
    ELSE EnsureLevel([tk EXCEPT !.comps = Components(directory),
                                !.repeat = directory \in ensured], 2)

\* ensureDirectoryExists(directory) up to its first await
EnsureDirectoryExists(tk, directory) ==
    IF client = NULL THEN IssuePut(tk)
    ELSE EnsureLevel([tk EXCEPT !.comps = Components(directory),
                                !.repeat = directory \in ensured], 1)

\* syncWithNextcloud, lines 182-185: without a connection handle the call
\* shows a notice and returns
Refused ==
    [IdleTask EXCEPT !.kind = "refused", !.pc = "done", !.notice = "not connected"]

\* the call chain was a pass that ended without error, no request has
\* failed, and the user has edited nothing since the pass started
EndedUntouched(tk) ==
    /\ history /\ faults = 0
    /\ tk.kind = "pass" /\ tk.pc = "done" /\ tk.outcome = "ok" /\ ~tk.touched

(***************************************************************************)
(* syncWithNextcloud up to its first await, whoever calls it.              *)
(***************************************************************************)
StartSync(t) ==
    /\ Free(t)
    /\ IF client = NULL
       THEN /\ tasks' = [tasks EXCEPT ![t] = Refused]
            /\ status' = status
       ELSE /\ \E order \in Orderings(SelectedFiles(FolderPath)) :
                 LET tk == [IdleTask EXCEPT !.kind = "pass", !.todo = order,
                                            !.unedited = local,
                                            !.selected = SelectedFiles(FolderPath),
                                            !.rerun = EndedUntouched(tasks[t]),
                                            !.handle = client]
                 IN tasks' = [tasks EXCEPT ![t] = NextUpload(tk)]
            /\ status' = "Syncing"

\* the command, the ribbon icon or the 'Sync Now' button calls
\* syncWithNextcloud
SyncWithNextcloud(t) ==
    /\ StartSync(t)
    /\ UNCHANGED <<timerVars, history, settings, client, local, localDirs, remoteFiles, remoteDirs,
                   hookRegistered, faults, ensured>>

\* an interval timer fires (startSyncInterval, lines 173-178)
IntervalTick(t) ==
    /\ timers # {}
    /\ StartSync(t)
    /\ UNCHANGED <<timerVars, history, settings, client, local, localDirs, remoteFiles, remoteDirs,
                   hookRegistered, faults, ensured>>

\* the timeout of the sync on startup fires (onload, lines 109-114)
StartupTick(t) ==
    /\ startupTimer
    /\ startupTimer' = FALSE
    /\ StartSync(t)
    /\ UNCHANGED <<syncIntervalId, timers, unloaded, history, settings, client, local,
                   localDirs, remoteFiles, remoteDirs, hookRegistered, faults, ensured>>

\* onunload, lines 120-124: the interval timer is cleared (the id stays in
\* syncIntervalId); the host detaches the handlers the plugin registered
Onunload ==
    /\ ~unloaded
    /\ unloaded' = TRUE
    /\ timers' = timers \ {syncIntervalId}
    /\ hookRegistered' = FALSE
    /\ UNCHANGED <<syncIntervalId, startupTimer, history, settings, client, status, tasks,
                   local, localDirs, remoteFiles, remoteDirs, faults, ensured>>

(***************************************************************************)
(* uploadFile.                                                             *)
(***************************************************************************)
\* vault.read(file) completes
ReadDone(t) ==
    /\ tasks[t].pc = "read"
    /\ \E o \in Outcomes :
         /\ Injected(o)
         /\ LET tk == tasks[t]
                rp == UploadRemotePath(tk.file)
            IN IF o = "fail" \/ tk.file \notin DOMAIN local
               THEN Commit(t, Thrown(tk))
               ELSE Commit(t, EnsureDirectoryExists(
                               Logged([tk EXCEPT !.content = local[tk.file],
                                                 !.remotePath = rp],
                                      "read", tk.file),
                               DirName(rp)))
    /\ UNCHANGED <<timerVars, history, settings, client, local, localDirs, remoteFiles, remoteDirs, hookRegistered>>

\* client.stat(currentPath) completes
StatDone(t) ==
    /\ tasks[t].pc = "stat"
    /\ \E o \in Outcomes :
         /\ Injected(o)
         /\ LET tk == tasks[t]
                currentPath == CurrentPath(tk.comps, tk.level)
            IN IF o = "ok" /\ RemoteExists(currentPath)
               THEN Commit(t, EnsureLevel(tk, tk.level + 1))
               ELSE \* catch (error): createDirectory(currentPath)
                    IF client = NULL THEN Commit(t, Thrown(tk))
                    ELSE Commit(t, [tk EXCEPT !.pc = "mkdir", !.statFailed = (o = "fail")])
    /\ UNCHANGED <<timerVars, history, settings, client, local, localDirs, remoteFiles, remoteDirs, hookRegistered>>

\* client.createDirectory(currentPath) completes
MkdirDone(t) ==
    /\ tasks[t].pc = "mkdir"
    /\ \E o \in Outcomes :
         /\ Injected(o)
         /\ LET tk == tasks[t]
                currentPath == CurrentPath(tk.comps, tk.level)
            IN IF o = "ok" /\ ~RemoteExists(currentPath)
                           /\ RemoteDirExists(DirName(currentPath))
               THEN /\ remoteDirs' = remoteDirs \cup {currentPath}
                    /\ Commit(t, EnsureLevel([tk EXCEPT !.created = @ \cup {currentPath}],
                                              tk.level + 1))
               ELSE /\ remoteDirs' = remoteDirs
                    /\ Commit(t, Thrown(tk))
    /\ UNCHANGED <<timerVars, history, settings, client, local, localDirs, remoteFiles, hookRegistered>>

\* a variant that keeps the content of an existing remote file
PutFileContentsNoOverwrite(path, content) ==
    [p \in DOMAIN remoteFiles \cup {path} |->
        IF p \in DOMAIN remoteFiles THEN remoteFiles[p] ELSE content]

\* the server after putFileContents(path, content, {overwrite: true})
PutFileContents(path, content) ==
    [p \in DOMAIN remoteFiles \cup {path} |->
        IF p = path THEN content ELSE remoteFiles[p]]

\* the write of the task replaces a remote file of another content
Replaced(tk) ==
    IF tk.remotePath \in DOMAIN remoteFiles /\ remoteFiles[tk.remotePath] # tk.content
    THEN Logged(tk, "replaced", tk.remotePath)
    ELSE tk

\* client.putFileContents(remotePath, content, {overwrite: true}) completes
PutDone(t) ==
    /\ tasks[t].pc = "put"
    /\ \E o \in Outcomes :
         /\ Injected(o)
         /\ LET tk == tasks[t]
            IN IF o = "ok" /\ RemoteDirExists(DirName(tk.remotePath))
                           /\ tk.remotePath \notin remoteDirs
               THEN /\ remoteFiles' = PutFileContents(tk.remotePath, tk.content)
                    /\ Commit(t, NextUpload(Logged(Replaced(tk), "put", tk.remotePath)))
               ELSE /\ remoteFiles' = remoteFiles
                    /\ Commit(t, Thrown(tk))
    /\ UNCHANGED <<timerVars, history, settings, client, local, localDirs, remoteDirs, hookRegistered>>

(***************************************************************************)
(* downloadChanges.                                                        *)
(***************************************************************************)
\* the loop of downloadChanges: the next remote markdown file, or the end
NextDownload(tk) ==
    IF tk.listing = <<>> THEN Returned(tk)
    ELSE IF client = NULL THEN Thrown(tk)
    ELSE [tk EXCEPT !.pc = "get", !.rfile = Head(tk.listing),
                    !.listing = Tail(tk.listing),
                    !.localPath = DownloadLocalPath(Head(tk.listing), tk.root),
                    !.rcontent = "",
                    !.processed = @ \cup {Head(tk.listing)}]

\* a variant in which the failure of the listing request is thrown on
GetRemoteFilesThrows(tk, ok, order) ==
    IF ok
    THEN NextDownload([tk EXCEPT !.listing = order,
                                 !.listed = {order[i] : i \in 1..Len(order)}])
    ELSE Thrown(tk)

\* getRemoteFiles returns the listing, or [] when the request failed (its
\* catch, lines 340-344); the loop of downloadChanges starts on what it
\* returned
GetRemoteFiles(tk, ok, order) ==
    NextDownload([tk EXCEPT !.listing = order,
                            !.listed = {order[i] : i \in 1..Len(order)}])

\* getRemoteFiles: client.getDirectoryContents(remotePath, {deep: true}) completes
ListDone(t) ==
    /\ tasks[t].pc = "list"
    /\ \E o \in Outcomes :
         /\ Injected(o)
         /\ LET tk == tasks[t]
                ok == o = "ok" /\ RemoteDirExists(tk.root)
                found == IF ok
                         THEN {p \in RemoteListing(tk.root) : IsRemoteMarkdown(p)}
                         ELSE {}
            IN \E order \in Orderings(found) :
                 Commit(t, GetRemoteFiles(
                               Logged(tk, IF ok THEN "list" ELSE "listfail", tk.root),
                               ok, order))
    /\ UNCHANGED <<timerVars, history, settings, client, local, localDirs, remoteFiles, remoteDirs, hookRegistered>>

\* client.getFileContents(remoteFile.filename) completes
GetDone(t) ==
    /\ tasks[t].pc = "get"
    /\ \E o \in Outcomes :
         /\ Injected(o)
         /\ LET tk == tasks[t]
            IN IF o = "fail" \/ tk.rfile \notin DOMAIN remoteFiles
               THEN Commit(t, Thrown(tk))
               ELSE Commit(t, [tk EXCEPT !.pc = "exists", !.rcontent = remoteFiles[tk.rfile]])
    /\ UNCHANGED <<timerVars, history, settings, client, local, localDirs, remoteFiles, remoteDirs, hookRegistered>>

\* vault.adapter.exists(localPath) completes
ExistsDone(t) ==
    /\ tasks[t].pc = "exists"
    /\ \E o \in Outcomes :
         /\ Injected(o)
         /\ LET tk == tasks[t]
            IN IF o = "fail" THEN Commit(t, Thrown(tk))
               ELSE IF VaultPath(tk.localPath) \in DOMAIN local \cup localDirs
               THEN Commit(t, [tk EXCEPT !.pc = "lread"])
               ELSE IF DirName(tk.localPath) # <<>>
               THEN Commit(t, Logged([tk EXCEPT !.pc = "mkfolder"],
                                     "absent", tk.rfile))
               ELSE Commit(t, Logged([tk EXCEPT !.pc = "create"],
                                     "absent", tk.rfile))
    /\ UNCHANGED <<timerVars, history, settings, client, local, localDirs, remoteFiles, remoteDirs, hookRegistered>>

\* a variant that writes the local file without comparing
ComparedAlwaysWrites(tk, localContent) ==
    Logged([tk EXCEPT !.pc = "lwrite"],
           IF tk.rcontent # localContent THEN "differ" ELSE "same", tk.rfile)

\* downloadChanges, lines 301-306: the local content is compared with the
\* remote content, and the file is written when they differ
Compared(tk, localContent) ==
    IF tk.rcontent # localContent
    THEN Logged([tk EXCEPT !.pc = "lwrite"], "differ", tk.rfile)
    ELSE NextDownload(Logged(tk, "same", tk.rfile))

\* vault.adapter.read(localPath) completes
LocalReadDone(t) ==
    /\ tasks[t].pc = "lread"
    /\ \E o \in Outcomes :
         /\ Injected(o)
         /\ LET tk == tasks[t]
            IN IF o = "fail" \/ VaultPath(tk.localPath) \notin DOMAIN local
               THEN Commit(t, Thrown(tk))
               ELSE Commit(t, Compared(tk, local[VaultPath(tk.localPath)]))
    /\ UNCHANGED <<timerVars, history, settings, client, local, localDirs, remoteFiles, remoteDirs, hookRegistered>>

\* the folders from the vault root down to dir
RECURSIVE FolderChain(_)
FolderChain(dir) == IF dir = <<>> THEN {} ELSE {dir} \cup FolderChain(DirName(dir))

\* a variant that keeps the content of an existing file
WriteLocalIfAbsent(path, content) ==
    local' = [p \in DOMAIN local \cup {path} |->
                 IF p \in DOMAIN local THEN local[p] ELSE content]

\* a file of the vault with the given content
WriteLocal(path, content) ==
    local' = [p \in DOMAIN local \cup {path} |-> IF p = path THEN content ELSE local[p]]

\* vault.adapter.write(localPath, content) completes
LocalWriteDone(t) ==
    /\ tasks[t].pc = "lwrite"
    /\ \E o \in Outcomes :
         /\ Injected(o)
         /\ LET tk == tasks[t]
            IN IF o = "fail" \/ VaultPath(tk.localPath) \in localDirs
               THEN /\ local' = local
                    /\ Commit(t, Thrown(tk))
               ELSE /\ WriteLocal(VaultPath(tk.localPath), tk.rcontent)
                    /\ Commit(t, NextDownload(Logged(tk, "write", VaultPath(tk.localPath))))
    /\ UNCHANGED <<timerVars, history, settings, client, localDirs, remoteFiles, remoteDirs, hookRegistered>>

\* a variant without the catch around createFolder
FolderTriedOrThrown(tk, o, dirPath) ==
    IF o = "fail" \/ dirPath \in localDirs \cup DOMAIN local
    THEN Thrown(tk)
    ELSE Logged([tk EXCEPT !.pc = "create"], "folder", dirPath)

\* downloadChanges, lines 311-317: createFolder has created the folder, or
\* it has thrown (the folder exists, or the request failed) and the catch
\* has ignored that; the file is created next
FolderTried(tk, o, dirPath) ==
    Logged([tk EXCEPT !.pc = "create"],
           IF o = "fail" THEN "folder failed"
           ELSE IF dirPath \in localDirs \cup DOMAIN local
           THEN "folder exists" ELSE "folder",
           dirPath)

\* vault.createFolder(dirPath) completes; its failure is ignored
CreateFolderDone(t) ==
    /\ tasks[t].pc = "mkfolder"
    /\ \E o \in Outcomes :
         /\ Injected(o)
         /\ LET tk == tasks[t]
                dirPath == VaultPath(DirName(tk.localPath))
            IN /\ localDirs' = IF o = "ok" /\ dirPath \notin localDirs \cup DOMAIN local
                               THEN localDirs \cup FolderChain(dirPath)
                               ELSE localDirs
               /\ Commit(t, FolderTried(tk, o, dirPath))
    /\ UNCHANGED <<timerVars, history, settings, client, local, remoteFiles, remoteDirs, hookRegistered>>

\* vault.create(localPath, content) completes
CreateDone(t) ==
    /\ tasks[t].pc = "create"
    /\ \E o \in Outcomes :
         /\ Injected(o)
         /\ LET tk == tasks[t]
                path == VaultPath(tk.localPath)
            IN IF o = "ok" /\ path \notin DOMAIN local \cup localDirs
                           /\ (DirName(path) = <<>> \/ DirName(path) \in localDirs)
               THEN /\ WriteLocal(path, tk.rcontent)
                    /\ Commit(t, NextDownload(Logged(tk, "create", path)))
               ELSE /\ local' = local
                    /\ Commit(t, Thrown(tk))
    /\ UNCHANGED <<timerVars, history, settings, client, localDirs, remoteFiles, remoteDirs, hookRegistered>>

(***************************************************************************)
(* The user edits a markdown file of the vault.  The modify handler, when  *)
(* onload registered it, calls uploadFile for the file.                    *)
(***************************************************************************)
Modify(t) ==
    /\ hookRegistered => Free(t)
    /\ \E f \in DOMAIN local, c \in Contents :
         /\ c # local[f]
         /\ local' = [local EXCEPT ![f] = c]
         /\ tasks' = [u \in Tasks |->
                        IF hookRegistered /\ u = t
                        THEN StartUploadFile([IdleTask EXCEPT !.kind = "save"], f)
                        ELSE IF tasks[u].kind = "pass"
                        THEN [tasks[u] EXCEPT !.unedited =
                                 [g \in DOMAIN @ \ {f} |-> @[g]],
                                              !.touched = TRUE]
                        ELSE tasks[u]]
    /\ UNCHANGED <<timerVars, history, settings, client, status, localDirs, remoteFiles, remoteDirs,
                   hookRegistered, faults, ensured>>

(***************************************************************************)
(* The state after onload: the settings are loaded, setupClient has built  *)
(* the connection handle, and the status bar item was created after that   *)
(* and shows 'Not Connected'.  The vault and the server hold what earlier  *)
(* sessions and other users left there.                                    *)
(***************************************************************************)
RECURSIVE ParentDirs(_)
ParentDirs(paths) ==
    IF paths = {} THEN {}
    ELSE LET p == CHOOSE q \in paths : TRUE
         IN FolderChain(DirName(p)) \cup ParentDirs(paths \ {p})

InitialVaults ==
    UNION {[S -> Contents] : S \in {{File_n_b}, {File_n_s_a}, {File_n_b, File_n_s_a}}}

InitialServers ==
    {<<>>} \cup UNION {[S -> Contents] : S \in {{Remote_b}, {Remote_b, Remote_s_a}}}

Loaded(folders, vaults, servers, budget) ==
    /\ settings \in {[Configured EXCEPT !.localFolderPath = f, !.syncOnSave = b] :
                         f \in folders, b \in BOOLEAN}
    /\ client = SetupClient(settings).client
    /\ status = "Not Connected"
    /\ local \in vaults
    /\ localDirs = ParentDirs(DOMAIN local)
    /\ remoteFiles \in servers
    /\ \E rootExists \in BOOLEAN :
         remoteDirs = IF rootExists \/ remoteFiles # <<>>
                      THEN {RootC} \cup ParentDirs(DOMAIN remoteFiles) ELSE {}
    /\ tasks = [t \in Tasks |-> IdleTask]
    /\ hookRegistered = settings.syncOnSave
    /\ faults \in budget
    /\ ensured = {}
    /\ syncIntervalId = NoTimer
    /\ timers = {}
    /\ startupTimer = FALSE
    /\ unloaded = FALSE

(***************************************************************************)
(* Spec: one call chain at a time (a trigger or an edit with the modify    *)
(* handler registered arrives only when the previous call chain has        *)
(* ended), any vault, any server, transport failures.                      *)
(***************************************************************************)
Init ==
    /\ Loaded({<<>>, FolderN}, InitialVaults, InitialServers, {0})
    /\ history = TRUE

Next ==
    \/ SyncWithNextcloud(1)
    \/ ReadDone(1)
    \/ StatDone(1)
    \/ MkdirDone(1)
    \/ PutDone(1)
    \/ ListDone(1)
    \/ GetDone(1)
    \/ ExistsDone(1)
    \/ LocalReadDone(1)
    \/ LocalWriteDone(1)
    \/ CreateFolderDone(1)
    \/ CreateDone(1)
    \/ Modify(1)

Spec == Init /\ [][Next]_vars

(***************************************************************************)
(* SpecRace: the triggers and the modify handler arrive at any time, so    *)
(* call chains overlap.  One vault and one server, no transport failure    *)
(* (the failures of this specification are those the overlap produces).    *)
(***************************************************************************)
RaceInit ==
    /\ Loaded({FolderN}, {(File_n_s_a :> "X")}, {(Remote_b :> "Y")}, {MaxFaults})
    /\ hookRegistered
    /\ remoteDirs = {RootC}
    /\ history = FALSE

RaceNext ==
    \E t \in Tasks :
        \/ SyncWithNextcloud(t)
        \/ ReadDone(t)
        \/ StatDone(t)
        \/ MkdirDone(t)
        \/ PutDone(t)
        \/ ListDone(t)
        \/ GetDone(t)
        \/ ExistsDone(t)
        \/ LocalReadDone(t)
        \/ LocalWriteDone(t)
        \/ CreateFolderDone(t)
        \/ CreateDone(t)
        \/ Modify(t)

SpecRace == RaceInit /\ [][RaceNext]_vars

(***************************************************************************)
(* SpecSettings: the user changes the credentials in the settings tab and  *)
(* runs the 'Connect to Nextcloud' command while call chains of the sync   *)
(* are in flight.  One vault and one server, no modify handler, no         *)
(* transport failure; the sync call chains are in slot 1 and the handlers  *)
(* of the settings in slot 2.                                              *)
(***************************************************************************)
\* the settings tab, lines 656-677: onChange of the username or of the
\* password sets the setting and calls saveSettings, which awaits saveData
ChangeSetting(t) ==
    /\ Free(t)
    /\ \E s \in {[settings EXCEPT !.username = u] : u \in {"", User, Other}}
               \cup {[settings EXCEPT !.password = p] : p \in {"", Secret}} :
         /\ s # settings
         /\ settings' = s
    /\ tasks' = [tasks EXCEPT ![t] = [IdleTask EXCEPT !.kind = "settings",
                                                      !.pc = "savedata"]]
    /\ UNCHANGED <<timerVars, history, client, status, local, localDirs, remoteFiles, remoteDirs,
                   hookRegistered, faults, ensured>>

\* window.setInterval: the id of the new timer, which no active timer and
\* no variable of the plugin holds
NewTimerId == CHOOSE n \in 1..(Cardinality(timers) + 2) : n \notin timers \cup {syncIntervalId}

\* a variant that starts the new timer without clearing the old one
RestartWithoutClear ==
    /\ syncIntervalId' = IF settings.syncInterval > 0 THEN NewTimerId ELSE NoTimer
    /\ timers' = IF settings.syncInterval > 0 THEN timers \cup {NewTimerId} ELSE timers

\* saveSettings, lines 136-144: the interval timer is cleared, and started
\* again when the interval is positive
RestartSyncInterval ==
    /\ syncIntervalId' = IF settings.syncInterval > 0 THEN NewTimerId ELSE NoTimer
    /\ timers' = (timers \ {syncIntervalId})
                    \cup (IF settings.syncInterval > 0 THEN {NewTimerId} ELSE {})

\* what the caller of saveSettings does when it has returned: onChange of
\* the settings tab nothing; pollForCredentials (line 440) calls
\* setupOAuthClient, pollForLoginFlow (line 568) calls setupClient
AfterSave(kind) ==
    IF kind = "oauth" THEN SetupOAuthClient(settings) ELSE SetupClient(settings)

\* saveSettings, lines 130-145: saveData completes, setupClient runs and the
\* interval timer is restarted; then the caller goes on.  A rejection of
\* saveData leaves saveSettings at once, and the poll of a login flow
\* catches it (lines 451-458, 579-586).
SaveDataDone(t) ==
    /\ tasks[t].pc = "savedata"
    /\ \E o \in Outcomes :
         /\ Injected(o)
         /\ IF o = "ok"
            THEN /\ tasks' = [tasks EXCEPT ![t] =
                               [@ EXCEPT !.pc = "done", !.outcome = "ok",
                                         !.notice = IF tasks[t].kind = "settings"
                                                    THEN "none" ELSE "authenticated"]]
                 /\ client' = AfterSave(tasks[t].kind).client
                 /\ status' = AfterSave(tasks[t].kind).status
                 /\ RestartSyncInterval
            ELSE /\ tasks' = [tasks EXCEPT ![t] =
                               [@ EXCEPT !.pc = "done", !.outcome = "error",
                                         !.notice = IF tasks[t].kind = "settings"
                                                    THEN "none" ELSE "polling error"]]
                 /\ UNCHANGED <<client, status, syncIntervalId, timers>>
    /\ UNCHANGED <<startupTimer, unloaded, history, settings, local, localDirs,
                   remoteFiles, remoteDirs, hookRegistered, ensured>>

\* the command 'Connect to Nextcloud', lines 79-90
ConnectCommand(t) ==
    /\ Free(t)
    /\ client' = SetupClient(settings).client
    /\ status' = SetupClient(settings).status
    /\ tasks' = [tasks EXCEPT ![t] =
                   [IdleTask EXCEPT !.kind = "connect", !.pc = "done",
                                    !.notice = IF client' # NULL THEN "connected"
                                               ELSE "none"]]
    /\ UNCHANGED <<timerVars, history, settings, local, localDirs, remoteFiles, remoteDirs,
                   hookRegistered, faults, ensured>>

SettingsInit ==
    /\ settings \in {[Configured EXCEPT !.username = u, !.password = p] :
                         u \in {"", User}, p \in {"", Secret}}
    /\ client = SetupClient(settings).client
    /\ status = "Not Connected"
    /\ local = (File_n_s_a :> "X")
    /\ localDirs = ParentDirs(DOMAIN local)
    /\ remoteFiles = (Remote_b :> "Y")
    /\ remoteDirs = {RootC}
    /\ tasks = [t \in Tasks |-> IdleTask]
    /\ hookRegistered = FALSE
    /\ faults = MaxFaults
    /\ ensured = {}
    /\ history = FALSE
    /\ syncIntervalId = NoTimer
    /\ timers = {}
    /\ startupTimer = FALSE
    /\ unloaded = FALSE

SettingsNext ==
    \/ SyncWithNextcloud(1)
    \/ ReadDone(1)
    \/ StatDone(1)
    \/ MkdirDone(1)
    \/ PutDone(1)
    \/ ListDone(1)
    \/ GetDone(1)
    \/ ExistsDone(1)
    \/ LocalReadDone(1)
    \/ LocalWriteDone(1)
    \/ CreateFolderDone(1)
    \/ CreateDone(1)
    \/ Modify(1)
    \/ ChangeSetting(2)
    \/ SaveDataDone(2)
    \/ ConnectCommand(2)

SpecSettings == SettingsInit /\ [][SettingsNext]_vars

(***************************************************************************)
(* The login flows: initiateLoginFlowV2 (the button 'Login with browser')  *)
(* and initiateOAuthFlow.  Both request a login URL and a poll token, open *)
(* the browser and poll the endpoint every five seconds until the login is *)
(* completed there.                                                        *)
(***************************************************************************)
\* a login flow up to the request of the login URL (lines 374-386,
\* 502-514); flow is "loginv2" or "oauth"
Initiated(flow) ==
    IF settings.nextcloudUrl = ""
    THEN [IdleTask EXCEPT !.kind = flow, !.pc = "done", !.notice = "configure url"]
    ELSE [IdleTask EXCEPT !.kind = flow, !.pc = "login"]

\* the button 'Login with browser'
InitiateLoginFlowV2(t) ==
    /\ Free(t)
    /\ tasks' = [tasks EXCEPT ![t] = Initiated("loginv2")]
    /\ UNCHANGED <<timerVars, history, settings, client, status, local, localDirs,
                   remoteFiles, remoteDirs, hookRegistered, faults, ensured>>

\* a call of the plugin's method initiateOAuthFlow
InitiateOAuthFlow(t) ==
    /\ Free(t)
    /\ tasks' = [tasks EXCEPT ![t] = Initiated("oauth")]
    /\ UNCHANGED <<timerVars, history, settings, client, status, local, localDirs,
                   remoteFiles, remoteDirs, hookRegistered, faults, ensured>>

\* the request of the login URL completes (lines 388-406, 516-534): the
\* browser is opened and the first poll is issued, or the catch reports
LoginDone(t) ==
    /\ tasks[t].pc = "login"
    /\ \E o \in Outcomes :
         /\ Injected(o)
         /\ tasks' = [tasks EXCEPT ![t] =
                        IF o = "ok"
                        THEN [@ EXCEPT !.pc = "poll", !.attempts = 0, !.polls = 1,
                                       !.notice = "login page opened"]
                        ELSE [@ EXCEPT !.pc = "done", !.outcome = "error",
                                       !.notice = "flow error"]]
    /\ UNCHANGED <<timerVars, history, settings, client, status, local, localDirs,
                   remoteFiles, remoteDirs, hookRegistered, ensured>>

\* poll, lines 428-435 and 557-563: the credentials of the response are
\* stored in this.settings
Credentials(flow, loginName, appPassword) ==
    IF flow = "oauth"
    THEN [settings EXCEPT !.username = loginName, !.accessToken = appPassword,
                          !.useOAuth = TRUE, !.password = ""]
    ELSE [settings EXCEPT !.username = loginName, !.password = appPassword,
                          !.useOAuth = FALSE]

\* poll, lines 461-473 and 589-601: one more attempt has found the login
\* not completed
NotYet(tk) ==
    IF tk.attempts + 1 >= MaxAttempts
    THEN [tk EXCEPT !.pc = "done", !.outcome = "timeout", !.attempts = @ + 1,
                    !.notice = "timed out"]
    ELSE [tk EXCEPT !.pc = "wait", !.attempts = @ + 1]

\* a poll request completes (lines 416-474, 545-602): with 200 the login is
\* completed and the credentials are saved, with 404 it is not completed
\* yet, every other failure ends the polling
PollDone(t) ==
    /\ tasks[t].pc = "poll"
    /\ \/ /\ \E loginName \in {User, Other} :
               settings' = Credentials(tasks[t].kind, loginName, Token)
          /\ tasks' = [tasks EXCEPT ![t] = [@ EXCEPT !.pc = "savedata",
                                                    !.stored = settings' # settings]]
          /\ faults' = faults
       \/ /\ tasks' = [tasks EXCEPT ![t] = NotYet(@)]
          /\ UNCHANGED <<settings, faults>>
       \/ /\ faults < MaxFaults
          /\ faults' = faults + 1
          /\ tasks' = [tasks EXCEPT ![t] = [@ EXCEPT !.pc = "done", !.outcome = "error",
                                                    !.notice = "polling error"]]
          /\ settings' = settings
    /\ UNCHANGED <<timerVars, history, client, status, local, localDirs,
                   remoteFiles, remoteDirs, hookRegistered, ensured>>

\* the timeout of line 473 (601) fires: the next poll request is issued
PollTimer(t) ==
    /\ tasks[t].pc = "wait"
    /\ tasks' = [tasks EXCEPT ![t] = [@ EXCEPT !.pc = "poll", !.polls = @ + 1]]
    /\ UNCHANGED <<timerVars, history, settings, client, status, local, localDirs,
                   remoteFiles, remoteDirs, hookRegistered, faults, ensured>>

(***************************************************************************)
(* SpecLogin: the login flows in slot 1 and the credential fields of the   *)
(* settings tab in slot 2.  The settings file is one with a password, one  *)
(* without credentials, or the one a completed token flow has saved.       *)
(***************************************************************************)
LoginSettings ==
    {Configured,
     [Configured EXCEPT !.username = "", !.password = ""],
     [Configured EXCEPT !.password = "", !.accessToken = Token, !.useOAuth = TRUE]}

LoginInit ==
    /\ settings \in LoginSettings
    /\ client = SetupClient(settings).client
    /\ status = "Not Connected"
    /\ local = <<>>
    /\ localDirs = {}
    /\ remoteFiles = <<>>
    /\ remoteDirs = {}
    /\ tasks = [t \in Tasks |-> IdleTask]
    /\ hookRegistered = FALSE
    /\ faults = 0
    /\ ensured = {}
    /\ history = FALSE
    /\ syncIntervalId = NoTimer
    /\ timers = {}
    /\ startupTimer = FALSE
    /\ unloaded = FALSE

LoginNext ==
    \/ InitiateLoginFlowV2(1)
    \/ InitiateOAuthFlow(1)
    \/ LoginDone(1)
    \/ PollDone(1)
    \/ PollTimer(1)
    \/ SaveDataDone(1)
    \/ ChangeSetting(2)
    \/ SaveDataDone(2)

SpecLogin == LoginInit /\ [][LoginNext]_vars

\* the scheduling of the polling loop: every request of the loop is answered
\* (requestUrl and saveData settle their promises) and the timeout of line
\* 473 (601) fires
LoginFairness ==
    /\ WF_vars(PollDone(1))
    /\ WF_vars(PollTimer(1))
    /\ WF_vars(SaveDataDone(1))

SpecLoginFair == SpecLogin /\ LoginFairness

(***************************************************************************)
(* SpecTimers: the timers of the plugin.  The user moves the slider of the *)
(* sync interval (the calls of saveSettings overlap), the timers fire and  *)
(* the plugin is unloaded.  The vault and the server are empty, so a pass  *)
(* is one listing request.                                                 *)
(***************************************************************************)
\* the settings tab, lines 706-715: onChange of the sync interval (the tab
\* is gone when the plugin is unloaded)
ChangeSyncInterval(t) ==
    /\ ~unloaded
    /\ Free(t)
    /\ \E i \in {0, Interval} :
         /\ i # settings.syncInterval
         /\ settings' = [settings EXCEPT !.syncInterval = i]
    /\ tasks' = [tasks EXCEPT ![t] = [IdleTask EXCEPT !.kind = "settings",
                                                      !.pc = "savedata"]]
    /\ UNCHANGED <<timerVars, history, client, status, local, localDirs, remoteFiles,
                   remoteDirs, hookRegistered, faults, ensured>>

\* onload, lines 92-114: the modify handler, the interval timer and the
\* timeout of the sync on startup, each when its setting asks for it
Onload(s) ==
    [syncIntervalId |-> IF s.syncInterval > 0 THEN 1 ELSE NoTimer,
     timers |-> IF s.syncInterval > 0 THEN {1} ELSE {},
     startupTimer |-> s.syncOnStartup,
     hookRegistered |-> s.syncOnSave]

TimersInit ==
    /\ settings \in {[Configured EXCEPT !.syncInterval = i, !.syncOnStartup = b] :
                         i \in {0, Interval}, b \in BOOLEAN}
    /\ client = SetupClient(settings).client
    /\ status = "Not Connected"
    /\ local = <<>>
    /\ localDirs = {}
    /\ remoteFiles = <<>>
    /\ remoteDirs = {RootC}
    /\ tasks = [t \in Tasks |-> IdleTask]
    /\ hookRegistered = Onload(settings).hookRegistered
    /\ faults = 0
    /\ ensured = {}
    /\ history = FALSE
    /\ syncIntervalId = Onload(settings).syncIntervalId
    /\ timers = Onload(settings).timers
    /\ startupTimer = Onload(settings).startupTimer
    /\ unloaded = FALSE

TimersNext ==
    \/ Onunload
    \/ \E t \in Tasks :
          \/ ChangeSyncInterval(t)
          \/ SaveDataDone(t)
          \/ IntervalTick(t)
          \/ StartupTick(t)
          \/ ListDone(t)

SpecTimers == TimersInit /\ [][TimersNext]_vars

(***************************************************************************)
(* SpecHook: the modify handler and the scope of the uploads.  The local   *)
(* folder is n; the vault holds a file in it and files beside it, one of   *)
(* them with a name that starts with the folder's name.  The user edits    *)
(* files, triggers passes (slot 1) and toggles 'Sync on Save' (slot 2).    *)
(***************************************************************************)
\* the settings tab, lines 728-737: onChange of the toggle 'Sync on Save'
ToggleSyncOnSave(t) ==
    /\ Free(t)
    /\ settings' = [settings EXCEPT !.syncOnSave = ~@]
    /\ tasks' = [tasks EXCEPT ![t] = [IdleTask EXCEPT !.kind = "settings",
                                                      !.pc = "savedata"]]
    /\ UNCHANGED <<timerVars, history, client, status, local, localDirs, remoteFiles,
                   remoteDirs, hookRegistered, faults, ensured>>

HookInit ==
    /\ settings \in {[Configured EXCEPT !.syncOnSave = b] : b \in BOOLEAN}
    /\ client = SetupClient(settings).client
    /\ status = "Not Connected"
    /\ local \in {[f \in S |-> "X"] : S \in {{File_n_b, File_nb}, {File_nb, File_b}}}
    /\ localDirs = ParentDirs(DOMAIN local)
    /\ remoteFiles = <<>>
    /\ remoteDirs = {}
    /\ tasks = [t \in Tasks |-> IdleTask]
    /\ hookRegistered = Onload(settings).hookRegistered
    /\ faults = MaxFaults
    /\ ensured = {}
    /\ history = FALSE
    /\ syncIntervalId = Onload(settings).syncIntervalId
    /\ timers = Onload(settings).timers
    /\ startupTimer = Onload(settings).startupTimer
    /\ unloaded = FALSE

HookNext ==
    \/ SyncWithNextcloud(1)
    \/ ReadDone(1)
    \/ StatDone(1)
    \/ MkdirDone(1)
    \/ PutDone(1)
    \/ ListDone(1)
    \/ GetDone(1)
    \/ ExistsDone(1)
    \/ LocalReadDone(1)
    \/ LocalWriteDone(1)
    \/ CreateFolderDone(1)
    \/ CreateDone(1)
    \/ Modify(1)
    \/ ToggleSyncOnSave(2)
    \/ SaveDataDone(2)

SpecHook == HookInit /\ [][HookNext]_vars

(***************************************************************************)
(* SpecPaths: the path mapping alone.  The settings and the file are drawn *)
(* from the collective roots, local folders and paths below; one action    *)
(* maps the file to its remote path as uploadFile does, the other maps     *)
(* that remote path to a local path as downloadChanges does.               *)
(***************************************************************************)
PathRoots ==
    {RootC,                          \* /C
     <<"C">>,                        \* C
     <<"/", "C", "/">>,              \* /C/
     <<"C", "/">>,                   \* C/
     <<"/", "C", "/", "D">>,         \* /C/D
     <<"/">>}                        \* /

PathFolders == {<<>>, FolderN}

PathFiles ==
    {File_n_b, File_n_s_a,
     <<"b", ".", "m", "d">>,                 \* b.md
     <<"n", "x", "/", "b", ".", "m", "d">>}  \* nx/b.md

PathsInit ==
    /\ settings \in {[Configured EXCEPT !.localFolderPath = f, !.collectivePath = r] :
                         f \in PathFolders, r \in PathRoots}
    /\ client = SetupClient(settings).client
    /\ status = "Not Connected"
    /\ local \in {[f \in {g} |-> "X"] : g \in PathFiles}
    /\ localDirs = ParentDirs(DOMAIN local)
    /\ remoteFiles = <<>>
    /\ remoteDirs = {}
    /\ tasks = [t \in Tasks |-> IdleTask]
    /\ hookRegistered = FALSE
    /\ faults = MaxFaults
    /\ ensured = {}
    /\ history = FALSE
    /\ syncIntervalId = NoTimer
    /\ timers = {}
    /\ startupTimer = FALSE
    /\ unloaded = FALSE

\* uploadFile, lines 234-253: the remote path of the file
MapToRemote(t) ==
    /\ tasks[t].pc = "idle"
    /\ \E f \in DOMAIN local :
         tasks' = [tasks EXCEPT ![t] = [IdleTask EXCEPT !.kind = "map", !.pc = "mapped",
                                                       !.file = f,
                                                       !.remotePath = UploadRemotePath(f)]]
    /\ UNCHANGED <<timerVars, history, settings, client, status, local, localDirs, remoteFiles,
                   remoteDirs, hookRegistered, faults, ensured>>

\* downloadChanges, lines 273-291: the local path of that remote path
MapToLocal(t) ==
    /\ tasks[t].pc = "mapped"
    /\ tasks' = [tasks EXCEPT ![t] =
                   [tasks[t] EXCEPT !.pc = "back",
                                    !.root = DownloadRoot(settings.collectivePath),
                                    !.rfile = tasks[t].remotePath,
                                    !.localPath = DownloadLocalPath(
                                        tasks[t].remotePath,
                                        DownloadRoot(settings.collectivePath))]]
    /\ UNCHANGED <<timerVars, history, settings, client, status, local, localDirs, remoteFiles,
                   remoteDirs, hookRegistered, faults, ensured>>

PathsNext == MapToRemote(1) \/ MapToLocal(1)

SpecPaths == PathsInit /\ [][PathsNext]_vars


(***************************************************************************)
(* Properties.                                                             *)
(***************************************************************************)
Passes == {t \in Tasks : tasks[t].kind = "pass"}

UploadPcs == {"read", "stat", "mkdir", "put"}

DownloadPcs == {"list", "get", "exists", "lread", "lwrite", "mkfolder", "create"}

\* the path lies in the configured local folder (every path does when it is empty)
InLocalFolder(f) ==
    \/ settings.localFolderPath = <<>>
    \/ StartsWith(f, settings.localFolderPath \o <<"/">>)

\* the directory the task's ensureDirectoryExists is at
LevelPath(t) == CurrentPath(tasks[t].comps, tasks[t].level)

\* C1: at most one synchronization pass is executing at any time.
C1_SingleFlight == Cardinality({t \in Passes : InFlight(t)}) <= 1

\* C2: in a run without any transport or filesystem failure, after a pass
\* that ended without error, every file of the local folder that was not
\* edited during the pass still holds the content it had when the pass
\* started, and so does its remote copy.
C2_LocalEditsNotClobbered ==
    \A t \in Passes :
        faults = 0 /\ tasks[t].pc = "done" /\ tasks[t].outcome = "ok" =>
            \A f \in DOMAIN tasks[t].unedited :
                InLocalFolder(f) /\ UploadRemotePath(f) \in DOMAIN remoteFiles =>
                    /\ local[f] = tasks[t].unedited[f]
                    /\ remoteFiles[UploadRemotePath(f)] = tasks[t].unedited[f]

\* C3: while a pass is in its download phase (from the listing request on),
\* uploadFile has been called, and has ended, for every selected file.
C3_UploadBeforeDownload ==
    \A t \in Passes :
        tasks[t].pc \in DownloadPcs =>
            tasks[t].called = tasks[t].selected /\ tasks[t].todo = <<>>

C3_Witness ==
    \E t \in Passes :
        /\ tasks[t].pc \in DownloadPcs
        /\ Cardinality(tasks[t].selected) = 2
        /\ tasks[t].called = tasks[t].selected

\* C4: with an empty local folder path, the upload phase of a pass has called
\* uploadFile for every markdown file of the vault when it ends.
C4_EmptyFolderIsWholeVault ==
    \A t \in Passes :
        tasks[t].pc = "list" /\ settings.localFolderPath = <<>> =>
            tasks[t].called = DOMAIN local

\* C5: a pass that has ended has called uploadFile for every selected file,
\* and it did not end by the failure of a request of uploadFile.
C5_UploadFailureIsPerFile ==
    \A t \in Passes :
        tasks[t].pc = "done" =>
            /\ tasks[t].called = tasks[t].selected
            /\ tasks[t].failedAt \notin UploadPcs

\* C6: a pass that has ended after its listing has started on every remote
\* markdown file of the listing.
C6_DownloadFailureIsPerFile ==
    \A t \in Passes :
        tasks[t].pc = "done" => tasks[t].processed = tasks[t].listed

\* C7: when the directory a task is about to create (its stat reported 'not
\* found') has been created by another actor meanwhile, the task's create
\* request does not end ensureDirectoryExists: the task goes on to the next
\* level or to the write.
C7_CreateRaceTolerated ==
    [][\A t \in Tasks :
          /\ tasks[t].pc = "mkdir"
          /\ ~tasks[t].statFailed
          /\ LevelPath(t) \in remoteDirs
          /\ tasks'[t] # tasks[t]
          => tasks'[t].pc \in {"stat", "put"}]_vars

\* C8: a create request is issued for a level only when its stat reported
\* 'not found', never when the stat failed with another error.
C8_CreateOnlyOnNotFound ==
    \A t \in Tasks : tasks[t].pc = "mkdir" => ~tasks[t].statFailed

C10_EnsureIdempotent ==
    \A t \in Tasks :
        tasks[t].repeat =>
            /\ tasks[t].created = {}
            /\ \/ tasks[t].pc \in {"stat", "put"}
               \/ tasks[t].pc = "done" /\ tasks[t].failedAt = "put"

\* The same, for the calls in which no stat fails with a transport error.
C10_IdempotentWithoutStatFailure ==
    \A t \in Tasks :
        tasks[t].repeat /\ ~tasks[t].statFailed =>
            /\ tasks[t].created = {}
            /\ \/ tasks[t].pc \in {"stat", "put"}
               \/ tasks[t].pc = "done" /\ tasks[t].failedAt = "put"

C10_Witness ==
    \E t \in Tasks :
        /\ tasks[t].repeat
        /\ tasks[t].pc = "put"
        /\ Len(tasks[t].comps) = 2

\* the paths on which the call chain of t has made the operation op
Did(t, op) == {e[2] : e \in {x \in tasks[t].log : x[1] = op}}

\* the files and folders of the vault the call chain of t has written or created
LocalWrites(t) == Did(t, "write") \cup Did(t, "create") \cup Did(t, "folder")

\* the file of the vault downloadChanges maps the remote file r to
LocalOf(r) == VaultPath(DownloadLocalPath(r, DownloadRoot(settings.collectivePath)))

\* C11: in a run without failure, a pass that starts right after a pass that
\* ended without error, with no edit of the user since, writes no file: no
\* remote file, no local file and no local folder.
C11_SecondPassWritesNothing ==
    \A t \in Passes :
        tasks[t].rerun /\ ~tasks[t].touched /\ faults = 0 =>
            Did(t, "put") = {} /\ LocalWrites(t) = {}

\* The local half of it: such a pass writes no file of the vault.
C11_SecondPassWritesNoLocalFile ==
    \A t \in Passes :
        tasks[t].rerun /\ ~tasks[t].touched /\ faults = 0 => LocalWrites(t) = {}

\* C12: a remote file whose local file the download phase has found to hold
\* the same content is neither written nor created by the pass, and the pass
\* creates no folder for it.
C12_IdenticalContentNotWritten ==
    \A t \in Passes :
        \A r \in Did(t, "same") :
            /\ LocalOf(r) \notin Did(t, "write") \cup Did(t, "create")
            /\ DirName(LocalOf(r)) \notin Did(t, "folder")
            /\ tasks[t].rfile = r => tasks[t].pc \notin {"lwrite", "mkfolder", "create"}

C12_Witness ==
    \E t \in Passes :
        /\ tasks[t].pc = "done"
        /\ Did(t, "same") # {}
        /\ Did(t, "write") # {}

\* C13: a remote file whose local file the download phase has found to hold
\* another content: once the pass has gone on from it without error the local
\* file has been written, and (the user editing nothing meanwhile) it holds
\* the remote content.
C13_DifferentContentOverwritten ==
    \A t \in Passes :
        \A r \in Did(t, "differ") :
            /\ tasks[t].rfile # r /\ tasks[t].failedAt # "lwrite" =>
                  LocalOf(r) \in Did(t, "write")
            /\ LocalOf(r) \in Did(t, "write") /\ ~tasks[t].touched =>
                  r \in DOMAIN remoteFiles /\ local[LocalOf(r)] = remoteFiles[r]

C13_Witness ==
    \E t \in Passes :
        /\ tasks[t].pc = "done" /\ tasks[t].outcome = "ok" /\ ~tasks[t].touched
        /\ \E r \in Did(t, "differ") : local[LocalOf(r)] = remoteFiles[r]

\* the path below the collective root of a remote file, in the local folder
ExpectedLocal(r) ==
    LET rel == Slice(r, Len(DownloadRoot(settings.collectivePath)) + 1)
    IN IF settings.localFolderPath = <<>> THEN rel
       ELSE settings.localFolderPath \o <<"/">> \o rel

\* C14: a remote markdown file for which the download phase has found no
\* local file: once the pass has gone on from it without a failing create,
\* the file has been created at its path below the collective root (in the
\* local folder), also when the parent folder existed already, and (the user
\* editing nothing meanwhile) it holds the remote content.
C14_MissingLocalFileCreated ==
    \A t \in Passes :
        \A r \in Did(t, "absent") :
            /\ tasks[t].rfile # r /\ tasks[t].failedAt # "create" =>
                  ExpectedLocal(r) \in Did(t, "create")
            /\ ExpectedLocal(r) \in Did(t, "create") /\ ~tasks[t].touched =>
                  /\ ExpectedLocal(r) \in DOMAIN local
                  /\ r \in DOMAIN remoteFiles
                  /\ local[ExpectedLocal(r)] = remoteFiles[r]

C14_Witness ==
    \E t \in Passes :
        \E r \in Did(t, "absent") :
            /\ DirName(ExpectedLocal(r)) \in Did(t, "folder exists")
            /\ ExpectedLocal(r) \in Did(t, "create")
            /\ local[ExpectedLocal(r)] = remoteFiles[r]

\* s without the '/' at its start and at its end
RECURSIVE TrimSlashes(_)
TrimSlashes(s) ==
    IF s # <<>> /\ Head(s) = "/" THEN TrimSlashes(Tail(s))
    ELSE IF s # <<>> /\ s[Len(s)] = "/" THEN TrimSlashes(SubSeq(s, 1, Len(s) - 1))
    ELSE s

\* the collective root, with one '/' at its start and one '/' at its end
NormalRoot ==
    IF TrimSlashes(settings.collectivePath) = <<>> THEN <<"/">>
    ELSE <<"/">> \o TrimSlashes(settings.collectivePath) \o <<"/">>

\* the path f names in the local folder: the folder and one '/' taken from
\* its start; f itself when the local folder is empty or f does not start
\* with it
BelowFolder(f) ==
    LET folder == settings.localFolderPath
        rest == SubSeq(f, Len(folder) + 1, Len(f))
    IN IF folder = <<>> \/ ~StartsWith(f, folder) THEN f
       ELSE IF rest # <<>> /\ Head(rest) = "/" THEN Tail(rest) ELSE rest

C16_RoundTrip ==
    \A t \in Tasks :
        tasks[t].pc = "back" /\ InLocalFolder(tasks[t].file) =>
            VaultPath(tasks[t].localPath) = tasks[t].file

\* C17: between its local read and its write, uploadFile holds the content
\* it read and the mapped path; the write is issued when the parent
\* directory has been ensured and exists; and after the write (the user
\* editing nothing meanwhile) the remote file at the mapped path holds the
\* content of the local file, whatever it held before.
C17_UploadWritesContentRead ==
    \A t \in Tasks :
        /\ tasks[t].pc \in {"stat", "mkdir", "put"} /\ ~tasks[t].touched =>
              /\ tasks[t].content = local[tasks[t].file]
              /\ tasks[t].remotePath = UploadRemotePath(tasks[t].file)
        /\ tasks[t].pc = "put" =>
              /\ DirName(tasks[t].remotePath) \in ensured
              /\ RemoteDirExists(DirName(tasks[t].remotePath))
        /\ \A f \in Did(t, "read") :
              UploadRemotePath(f) \in Did(t, "put") /\ ~tasks[t].touched =>
                  /\ UploadRemotePath(f) \in DOMAIN remoteFiles
                  /\ remoteFiles[UploadRemotePath(f)] = local[f]

C17_Witness ==
    \E t \in Tasks :
        \E f \in Did(t, "read") :
            /\ UploadRemotePath(f) \in Did(t, "put") \cap Did(t, "replaced")
            /\ remoteFiles[UploadRemotePath(f)] = local[f]

\* C18: a pass whose listing request failed has ended without error: it
\* listed no remote file, wrote nothing to the vault, showed the notice of
\* completion and left the status Connected.
C18_ListingFailureIsEmptyListing ==
    \A t \in Passes :
        Did(t, "listfail") # {} =>
            /\ tasks[t].pc = "done" /\ tasks[t].outcome = "ok"
            /\ tasks[t].listed = {} /\ tasks[t].processed = {}
            /\ LocalWrites(t) = {} /\ Did(t, "write") = {}
            /\ tasks[t].notice = "completed" /\ status = "Connected"

C18_Witness ==
    \E t \in Passes :
        /\ Did(t, "listfail") # {}
        /\ RootC \notin remoteDirs
        /\ status = "Connected"

\* the step is a call of syncWithNextcloud in the slot t
Triggered(t) ==
    /\ Free(t)
    /\ tasks'[t].kind \in {"pass", "refused"}
    /\ tasks'[t].kind # tasks[t].kind \/ tasks'[t].pc # tasks[t].pc

\* a call of syncWithNextcloud without a connection handle starts no pass,
\* shows the notice, and changes neither the vault nor the server
RefusedWithoutEffect(t) ==
    /\ tasks'[t].kind = "refused"
    /\ tasks'[t].notice = "not connected"
    /\ status' # "Syncing"
    /\ UNCHANGED <<local, localDirs, remoteFiles, remoteDirs>>

\* C19: a call of syncWithNextcloud while the connection handle is null
\* starts no pass, shows the notice, changes neither the vault nor the
\* server, and the status reads Not Connected after it.
C19_NotConnectedTrigger ==
    [][\A t \in Tasks :
          client = NULL /\ Triggered(t) =>
              RefusedWithoutEffect(t) /\ status' = "Not Connected"]_vars

\* The same without the status: it holds.
C19_NotConnectedStartsNoPass ==
    [][\A t \in Tasks :
          client = NULL /\ Triggered(t) => RefusedWithoutEffect(t)]_vars

\* both phases of the pass of t have been carried out to their end
PhasesComplete(t) ==
    /\ \A f \in tasks[t].selected : UploadRemotePath(f) \in Did(t, "put")
    /\ Did(t, "list") \cup Did(t, "listfail") # {}
    /\ \A r \in tasks[t].listed :
          \/ r \in Did(t, "same")
          \/ LocalOf(r) \in Did(t, "write") \cup Did(t, "create")

\* C20: a pass that has ended leaves the status Connected, with the notice of
\* completion, when both of its phases were carried out to their end, and
\* the status Error, with the notice of the error, otherwise.
C20_ConnectedIffBothPhasesComplete ==
    \A t \in Passes :
        tasks[t].pc = "done" =>
            IF PhasesComplete(t)
            THEN status = "Connected" /\ tasks[t].notice = "completed"
            ELSE status = "Error" /\ tasks[t].notice = "error"

C20_Witness ==
    \E t \in Passes :
        /\ tasks[t].pc = "done" /\ status = "Connected"
        /\ Did(t, "put") # {} /\ Did(t, "create") # {}

\* the call chain of slot t is a pass that ended in the catch of
\* syncWithNextcloud
EndedInError(t) ==
    tasks[t].kind = "pass" /\ tasks[t].pc = "done" /\ tasks[t].outcome = "error"

\* the step leaves the call chain of slot t as it is, but for the record of
\* the user's edits
Rests(t) ==
    tasks'[t] = [tasks[t] EXCEPT !.unedited = tasks'[t].unedited,
                                 !.touched = tasks'[t].touched]

\* the step starts a pass in slot t from the beginning: the upload phase
\* selects the files anew and nothing of the ended pass is carried on
StartsAfresh(t) ==
    /\ tasks'[t].kind = "pass" /\ tasks'[t].outcome = "none"
    /\ tasks'[t].pc \in {"read", "list"}
    /\ tasks'[t].selected = SelectedFiles(FolderPath)
    /\ Cardinality(tasks'[t].called) <= 1
    /\ tasks'[t].listed = {} /\ tasks'[t].processed = {}
    /\ tasks'[t].failedAt = "none" /\ tasks'[t].notice = "none"
    /\ status' = "Syncing"

\* C21: a pass that ended with an error of either phase has left the status
\* Error and the notice of the error; nothing goes on in its slot until a
\* trigger (or, with the modify handler, an edit of the user) arrives, and
\* the next trigger starts a new pass from the beginning.
C21_ErrorEndsPassUntilNextTrigger ==
    [][\A t \in Tasks :
          EndedInError(t) =>
              /\ status = "Error" /\ tasks[t].notice = "error"
              /\ tasks[t].failedAt \in UploadPcs \cup DownloadPcs
              /\ client # NULL
              /\ Rests(t) \/ Triggered(t) \/ tasks'[t].kind = "save"
              /\ Triggered(t) => StartsAfresh(t)]_vars

C21_Witness ==
    \E t \in Passes :
        /\ EndedInError(t) /\ status = "Error"
        /\ tasks[t].failedAt = "get" /\ tasks[t].called # {}

\* the login flow of slot t has completed: its credentials are saved and the
\* connection is set up
FlowCompleted(t) ==
    /\ tasks[t].kind \in {"oauth", "loginv2"}
    /\ tasks[t].pc = "done" /\ tasks[t].outcome = "ok"

\* no handler of the settings tab has run
TabIdle == \A t \in Tasks : tasks[t].kind # "settings"

\* C22: when a login flow has completed, exactly one of the password and the
\* access token is set: the token flow has cleared the password and set
\* useOAuth, the login flow v2 has cleared the access token and useOAuth.
C22_OneCredentialSet ==
    \A t \in Tasks :
        FlowCompleted(t) /\ TabIdle =>
            /\ (settings.password # "") # (settings.accessToken # "")
            /\ tasks[t].kind = "oauth" =>
                    settings.password = "" /\ settings.accessToken # "" /\ settings.useOAuth
            /\ tasks[t].kind = "loginv2" =>
                    settings.accessToken = "" /\ settings.password # "" /\ ~settings.useOAuth

\* The token flow's half of it, and the flag of both: they hold.
C22_TokenFlowClearsPassword ==
    \A t \in Tasks :
        FlowCompleted(t) /\ TabIdle =>
            /\ tasks[t].kind = "oauth" =>
                    settings.password = "" /\ settings.accessToken # "" /\ settings.useOAuth
            /\ tasks[t].kind = "loginv2" => settings.password # "" /\ ~settings.useOAuth

\* C23: every request to the server that a pass issues goes to the connection
\* handle that was this.client when the pass started, also when the settings
\* are saved while the pass is in flight.
C23_PassKeepsItsHandle ==
    \A t \in Passes : ~tasks[t].torn

\* C24: a put request is issued only for a file that lies in the local
\* folder, the folder's path being a prefix of whole components of the
\* file's path; by a pass and by the modify handler.
C24_UploadsOnlyInsideFolder ==
    \A t \in Tasks : tasks[t].pc = "put" => InLocalFolder(tasks[t].file)

\* C25: two distinct files that a pass has selected for upload have distinct
\* remote paths.
C25_MappingInjective ==
    \A t \in Passes : \A f, g \in tasks[t].selected :
        f # g => UploadRemotePath(f) # UploadRemotePath(g)

\* the token-based credentials are active
TokenActive ==
    settings.useOAuth /\ settings.nextcloudUrl # "" /\ settings.accessToken # ""

\* C26: while the token-based credentials are active and no saveSettings
\* call is in flight, the connection handle is not null.
C26_TokenKeepsHandle ==
    TokenActive /\ (\A t \in Tasks : tasks[t].pc # "savedata") => client # NULL

\* every call of saveSettings has returned: none awaits saveData, and no
\* request has failed
SavesReturned ==
    faults = 0 /\ \A t \in Tasks : tasks[t].pc # "savedata"

C28_SyncingWhileInFlight ==
    (\E t \in Passes : InFlight(t)) => status = "Syncing"

\* the step calls uploadFile from the modify handler in slot t
SaveStarted(t) ==
    Free(t) /\ tasks'[t].kind = "save" /\ tasks'[t].pc = "read"

\* the step is an edit of the user: a file of the vault changes and no call
\* chain moves but the modify handler's
UserEdit ==
    /\ local' # local
    /\ \A t \in Tasks : tasks'[t].pc = tasks[t].pc \/ SaveStarted(t)

\* C29: an edit of a markdown file starts an upload of that file exactly
\* when syncOnSave is true at the time of the edit.
C29_FlagGovernsHook ==
    [][UserEdit =>
          IF settings.syncOnSave
          THEN \E t \in Tasks : SaveStarted(t) /\ local'[tasks'[t].file] # local[tasks'[t].file]
          ELSE \A t \in Tasks : ~SaveStarted(t)]_vars

\* The same with the flag as it was when the plugin was loaded: it holds.
C29_FlagAtLoadGovernsHook ==
    [][UserEdit =>
          IF hookRegistered
          THEN \E t \in Tasks : SaveStarted(t) /\ local'[tasks'[t].file] # local[tasks'[t].file]
          ELSE \A t \in Tasks : ~SaveStarted(t)]_vars

\* C30: after onunload no call of syncWithNextcloud starts a pass.
C30_NoPassAfterUnload ==
    [][\A t \in Tasks : unloaded => ~(Triggered(t) /\ tasks'[t].kind = "pass")]_vars

\* the polling loop of the login flow of slot t has ended
PollingEnded(t) ==
    /\ tasks[t].kind \in {"oauth", "loginv2"}
    /\ tasks[t].pc = "done" /\ tasks[t].polls > 0

\* C31: the polling loop issues at most 60 poll requests and ends in one of
\* three outcomes: the credentials are saved and the connection is set up, or
\* 60 attempts have found the login not completed, or another error than 404
\* has ended it; the loop has changed the settings only when it has ended
\* with the credentials saved.
C31_PollingEndsInOneOutcome ==
    \A t \in Tasks :
        /\ tasks[t].polls <= MaxAttempts
        /\ PollingEnded(t) =>
              /\ tasks[t].outcome \in {"ok", "timeout", "error"}
              /\ tasks[t].outcome = "timeout" => tasks[t].attempts = MaxAttempts
              /\ tasks[t].stored => tasks[t].outcome = "ok"

\* the polling loop issues at most 60 poll requests, a loop that has ended
\* without the credentials saved has timed out after 60 attempts or has been
\* ended by an error, and a loop in its 60th request has 59 attempts behind it
C31_AtMostSixtyPolls ==
    \A t \in Tasks :
        /\ tasks[t].polls <= MaxAttempts
        /\ tasks[t].attempts <= MaxAttempts
        /\ tasks[t].pc \in {"poll", "savedata"} /\ tasks[t].kind # "settings"
              => tasks[t].polls = tasks[t].attempts + 1
        /\ PollingEnded(t) =>
              /\ tasks[t].outcome \in {"ok", "timeout", "error"}
              /\ tasks[t].outcome = "timeout"
                    => tasks[t].attempts = MaxAttempts /\ tasks[t].polls = MaxAttempts
              /\ tasks[t].outcome = "timeout" => ~tasks[t].stored

\* once the polling loop has ended it issues no further poll request and
\* changes neither its outcome nor the settings: only a new login flow or the
\* settings tab does
C31_NoPollAfterEnd ==
    [][\A t \in Tasks :
          PollingEnded(t) /\ tasks'[t] # tasks[t]
              => tasks'[t].polls = 0 /\ tasks'[t].pc = "login"]_vars

\* a polling loop that has started ends
C31_PollingTerminates ==
    \A t \in Tasks : (tasks[t].polls > 0) ~> (tasks[t].pc = "done")

====
